---------------------------- MODULE Spec2Model ----------------------------
(* Layered-grid data model of layer_axiom_game.py: the (layer, axiom) grid *)
(* cache, the edit cursor, the ring extractor and the prefill engine.      *)
EXTENDS Integers, Naturals, Sequences, FiniteSets, TLC

(***************************************************************************)
(* Bounds of the model.                                                    *)
(***************************************************************************)
MaxLayer == 2
NumAxioms == 2
MaxWrites == 1
MaxFill == 2

(***************************************************************************)
(* Configuration.                                                          *)
(***************************************************************************)
\* "u25E6" stands for the one-character string U+25E6 (white bullet)
DEFAULT_CHAR == "u25E6"
CENTER_CHAR == "O"

AXIOM_CONFIGS == <<"A", "B", "C", "D", "E", "F", "H", "I", "J">>

\* the axioms the model explores: the first NumAxioms entries of the table
Axioms == {AXIOM_CONFIGS[i] : i \in 1..NumAxioms}

\* chr(key) for 32 <= key < 127: blank, the origin marker and one other glyph
KeyChars == {" ", "O", "#"}

\* the four arrow keys
Dirs == {<<-1, 0>>, <<1, 0>>, <<0, -1>>, <<0, 1>>}

VARIABLES data, current_layer, current_axiom, cursor_x, cursor_y, pc, writes

vars == <<data, current_layer, current_axiom, cursor_x, cursor_y, pc, writes>>

(***************************************************************************)
(* Helpers.                                                                *)
(***************************************************************************)
abs(n) == IF n < 0 THEN -n ELSE n

max(a, b) == IF a >= b THEN a ELSE b

\* data[key] = value on a dict: insert or overwrite
DictSet(d, key, value) ==
    [k \in (DOMAIN d) \cup {key} |-> IF k = key THEN value ELSE d[k]]

(***************************************************************************)
(* GridStore / LayerFactory.                                               *)
(***************************************************************************)
layer_dimension(layer) == 2 * layer + 1

\* the translation of the origin marker in a copied cell
Blank(ch) == IF ch = CENTER_CHAR THEN " " ELSE ch

RECURSIVE create_layer_axiom(_, _, _)
RECURSIVE ensure_layer_axiom(_, _, _)

\* create_layer_axiom copying the origin marker as it is
create_layer_axiom_keeps_marker(d, layer, axiom) ==
    LET dim == layer_dimension(layer)
        inner(g) == g \in 1..(dim - 2)
    IN  IF layer = 0
        THEN DictSet(d, <<layer, axiom>>,
                     [grid |-> (0 :> (0 :> CENTER_CHAR)),
                      read_only |-> (0 :> (0 :> FALSE))])
        ELSE LET d1 == ensure_layer_axiom(d, layer - 1, axiom)
                 prev_grid == d1[<<layer - 1, axiom>>].grid
             IN  DictSet(d1, <<layer, axiom>>,
                     [grid |-> [gy \in 0..(dim - 1) |-> [gx \in 0..(dim - 1) |->
                                  IF inner(gy) /\ inner(gx)
                                  THEN prev_grid[gy - 1][gx - 1]
                                  ELSE DEFAULT_CHAR]],
                      read_only |-> [gy \in 0..(dim - 1) |-> [gx \in 0..(dim - 1) |->
                                  inner(gy) /\ inner(gx)]]])

\* create_layer_axiom copying the previous grid to the top-left corner
create_layer_axiom_no_offset(d, layer, axiom) ==
    LET dim == layer_dimension(layer)
        inner(g) == g \in 0..(dim - 3)
    IN  IF layer = 0
        THEN DictSet(d, <<layer, axiom>>,
                     [grid |-> (0 :> (0 :> CENTER_CHAR)),
                      read_only |-> (0 :> (0 :> FALSE))])
        ELSE LET d1 == ensure_layer_axiom(d, layer - 1, axiom)
                 prev_grid == d1[<<layer - 1, axiom>>].grid
             IN  DictSet(d1, <<layer, axiom>>,
                     [grid |-> [gy \in 0..(dim - 1) |-> [gx \in 0..(dim - 1) |->
                                  IF inner(gy) /\ inner(gx)
                                  THEN Blank(prev_grid[gy][gx])
                                  ELSE DEFAULT_CHAR]],
                      read_only |-> [gy \in 0..(dim - 1) |-> [gx \in 0..(dim - 1) |->
                                  inner(gy) /\ inner(gx)]]])

\* create_layer_axiom copying the previous frozen flags instead of freezing
create_layer_axiom_inherits_flags(d, layer, axiom) ==
    LET dim == layer_dimension(layer)
        inner(g) == g \in 1..(dim - 2)
    IN  IF layer = 0
        THEN DictSet(d, <<layer, axiom>>,
                     [grid |-> (0 :> (0 :> CENTER_CHAR)),
                      read_only |-> (0 :> (0 :> FALSE))])
        ELSE LET d1 == ensure_layer_axiom(d, layer - 1, axiom)
                 prev == d1[<<layer - 1, axiom>>]
             IN  DictSet(d1, <<layer, axiom>>,
                     [grid |-> [gy \in 0..(dim - 1) |-> [gx \in 0..(dim - 1) |->
                                  IF inner(gy) /\ inner(gx)
                                  THEN Blank(prev.grid[gy - 1][gx - 1])
                                  ELSE DEFAULT_CHAR]],
                      read_only |-> [gy \in 0..(dim - 1) |-> [gx \in 0..(dim - 1) |->
                                  /\ inner(gy) /\ inner(gx)
                                  /\ prev.read_only[gy - 1][gx - 1]]]])

\* create_layer_axiom building from the previous grid only if it is cached
create_layer_axiom_no_recursion(d, layer, axiom) ==
    LET dim == layer_dimension(layer)
        inner(g) == g \in 1..(dim - 2)
        has_prev == <<layer - 1, axiom>> \in DOMAIN d
    IN  IF layer = 0
        THEN DictSet(d, <<layer, axiom>>,
                     [grid |-> (0 :> (0 :> CENTER_CHAR)),
                      read_only |-> (0 :> (0 :> FALSE))])
        ELSE DictSet(d, <<layer, axiom>>,
                     [grid |-> [gy \in 0..(dim - 1) |-> [gx \in 0..(dim - 1) |->
                                  IF inner(gy) /\ inner(gx)
                                  THEN IF has_prev
                                       THEN Blank(d[<<layer - 1, axiom>>].grid[gy - 1][gx - 1])
                                       ELSE " "
                                  ELSE DEFAULT_CHAR]],
                      read_only |-> [gy \in 0..(dim - 1) |-> [gx \in 0..(dim - 1) |->
                                  inner(gy) /\ inner(gx)]]])

create_layer_axiom(d, layer, axiom) ==
    LET dim == layer_dimension(layer)
        grid0 == [gy \in 0..(dim - 1) |-> [gx \in 0..(dim - 1) |-> DEFAULT_CHAR]]
        ro0 == [gy \in 0..(dim - 1) |-> [gx \in 0..(dim - 1) |-> FALSE]]
    IN  IF layer = 0
        THEN DictSet(d, <<layer, axiom>>,
                     [grid |-> [grid0 EXCEPT ![0][0] = CENTER_CHAR],
                      read_only |-> [ro0 EXCEPT ![0][0] = FALSE]])
        ELSE LET d1 == ensure_layer_axiom(d, layer - 1, axiom)
                 prev_grid == d1[<<layer - 1, axiom>>].grid
                 prev_dim == layer_dimension(layer - 1)
                 offset == (dim - prev_dim) \div 2
                 copied(g) == (g - offset) \in 0..(prev_dim - 1)
                 grid == [gy \in 0..(dim - 1) |-> [gx \in 0..(dim - 1) |->
                            IF copied(gy) /\ copied(gx)
                            THEN Blank(prev_grid[gy - offset][gx - offset])
                            ELSE grid0[gy][gx]]]
                 read_only == [gy \in 0..(dim - 1) |-> [gx \in 0..(dim - 1) |->
                            IF copied(gy) /\ copied(gx) THEN TRUE ELSE ro0[gy][gx]]]
             IN  DictSet(d1, <<layer, axiom>>,
                         [grid |-> grid, read_only |-> read_only])

\* ensure_layer_axiom building the grid whether or not it is cached
ensure_layer_axiom_rebuilds(d, layer, axiom) ==
    create_layer_axiom(d, layer, axiom)

ensure_layer_axiom(d, layer, axiom) ==
    IF <<layer, axiom>> \notin DOMAIN d
    THEN create_layer_axiom(d, layer, axiom)
    ELSE d

\* the keys assigned by data[(layer, axiom)] = ... (line 107) during one call,
\* in the order of the assignments
RECURSIVE create_layer_axiom_stores(_, _, _)
RECURSIVE ensure_layer_axiom_stores(_, _, _)

create_layer_axiom_stores(d, layer, axiom) ==
    IF layer = 0
    THEN << <<layer, axiom>> >>
    ELSE ensure_layer_axiom_stores(d, layer - 1, axiom) \o << <<layer, axiom>> >>

ensure_layer_axiom_stores(d, layer, axiom) ==
    IF <<layer, axiom>> \notin DOMAIN d
    THEN create_layer_axiom_stores(d, layer, axiom)
    ELSE <<>>

(***************************************************************************)
(* RingExtractor.                                                        *)
(***************************************************************************)
\* the (x, y) pairs in the order of the nested loops: y outer, x inner
\* the scan with range(-N, N) in place of range(-N, N + 1)
ScanOrder_half_open(N) ==
    [i \in 1..((layer_dimension(N) - 1) * (layer_dimension(N) - 1)) |->
        <<((i - 1) % (layer_dimension(N) - 1)) - N,
          ((i - 1) \div (layer_dimension(N) - 1)) - N>>]

ScanOrder(N) ==
    [i \in 1..(layer_dimension(N) * layer_dimension(N)) |->
        <<((i - 1) % layer_dimension(N)) - N, ((i - 1) \div layer_dimension(N)) - N>>]

\* the cells the two loops keep by max(abs(x), abs(y)) == N, before the
\* symbol filter, in scan order
outer_ring_positions(N) ==
    SelectSeq(ScanOrder(N), LAMBDA p : max(abs(p[1]), abs(p[2])) = N)

\* get_outer_ring_cells reading grid[gx][gy]
get_outer_ring_cells_transposed(d, layer, axiom) ==
    LET grid == d[<<layer, axiom>>].grid
        kept(p) == /\ max(abs(p[1]), abs(p[2])) = layer
                   /\ grid[p[1] + layer][p[2] + layer] \notin {" ", "", DEFAULT_CHAR}
        scan == SelectSeq(ScanOrder(layer), kept)
    IN  IF layer = 0
        THEN << <<0, 0, grid[0][0]>> >>
        ELSE [i \in 1..Len(scan) |->
                <<scan[i][1], scan[i][2], grid[scan[i][1] + layer][scan[i][2] + layer]>>]

\* get_outer_ring_cells applying the symbol filter at layer 0 as well
get_outer_ring_cells_filters_origin(d, layer, axiom) ==
    LET grid == d[<<layer, axiom>>].grid
        kept(p) == /\ max(abs(p[1]), abs(p[2])) = layer
                   /\ grid[p[2] + layer][p[1] + layer] \notin {" ", "", DEFAULT_CHAR}
        scan == SelectSeq(ScanOrder(layer), kept)
    IN  [i \in 1..Len(scan) |->
            <<scan[i][1], scan[i][2], grid[scan[i][2] + layer][scan[i][1] + layer]>>]

\* get_outer_ring_cells skipping the default placeholder only
get_outer_ring_cells_keeps_blank(d, layer, axiom) ==
    LET grid == d[<<layer, axiom>>].grid
        kept(p) == /\ max(abs(p[1]), abs(p[2])) = layer
                   /\ grid[p[2] + layer][p[1] + layer] # DEFAULT_CHAR
        scan == SelectSeq(ScanOrder(layer), kept)
    IN  IF layer = 0
        THEN << <<0, 0, grid[0][0]>> >>
        ELSE [i \in 1..Len(scan) |->
                <<scan[i][1], scan[i][2], grid[scan[i][2] + layer][scan[i][1] + layer]>>]

get_outer_ring_cells(d, layer, axiom) ==
    LET grid == d[<<layer, axiom>>].grid
        center == layer
        N == layer
        kept(p) == /\ max(abs(p[1]), abs(p[2])) = N
                   /\ grid[p[2] + center][p[1] + center] \notin {" ", "", DEFAULT_CHAR}
        cell(p) == <<p[1], p[2], grid[p[2] + center][p[1] + center]>>
        scan == SelectSeq(ScanOrder(N), kept)
    IN  IF layer = 0
        THEN << <<0, 0, grid[0][0]>> >>
        ELSE [i \in 1..Len(scan) |-> cell(scan[i])]

(***************************************************************************)
(* CursorNavigator.  The handlers read and assign the module globals; each *)
(* is written as the map from the globals s before the call to the globals *)
(* after it.                                                               *)
(***************************************************************************)
is_within_bounds(s, x, y) ==
    /\ -s.current_layer <= x /\ x <= s.current_layer
    /\ -s.current_layer <= y /\ y <= s.current_layer

is_read_only(s, x, y) ==
    LET ro == s.data[<<s.current_layer, s.current_axiom>>].read_only
        center == s.current_layer
        gx == x + center
        gy == y + center
    IN  ro[gy][gx]

\* the while loop of jump_across, entered with the locals (x, y)
RECURSIVE jump_walk(_, _, _, _, _)
\* jump_across stepping onto the next cell without looking at its frozen flag
jump_walk_no_skip(s, x, y, dx, dy) ==
    IF ~is_within_bounds(s, x + dx, y + dy)
    THEN [ret |-> FALSE, st |-> s]
    ELSE [ret |-> TRUE, st |-> [s EXCEPT !.cursor_x = x + dx, !.cursor_y = y + dy]]

\* jump_across wrapping around to the opposite edge when it leaves the grid
jump_walk_wraps(s, x, y, dx, dy) ==
    IF ~is_within_bounds(s, x + dx, y + dy)
    THEN [ret |-> FALSE,
          st |-> [s EXCEPT !.cursor_x = x - 2 * s.current_layer * dx,
                           !.cursor_y = y - 2 * s.current_layer * dy]]
    ELSE IF ~is_read_only(s, x + dx, y + dy)
         THEN [ret |-> TRUE,
               st |-> [s EXCEPT !.cursor_x = x + dx, !.cursor_y = y + dy]]
         ELSE jump_walk(s, x + dx, y + dy, dx, dy)

jump_walk(s, x, y, dx, dy) ==
    LET nx == x + dx
        ny == y + dy
    IN  IF ~is_within_bounds(s, nx, ny)
        THEN [ret |-> FALSE, st |-> s]
        ELSE IF ~is_read_only(s, nx, ny)
             THEN [ret |-> TRUE,
                   st |-> [s EXCEPT !.cursor_x = nx, !.cursor_y = ny]]
             ELSE jump_walk(s, nx, ny, dx, dy)

\* jump_walk_reads with is_read_only called before is_within_bounds
RECURSIVE jump_walk_reads(_, _, _, _, _)
jump_walk_reads_before_check(s, x, y, dx, dy) ==
    << <<x + dx, y + dy>> >> \o
        (IF ~is_within_bounds(s, x + dx, y + dy)
         THEN <<>>
         ELSE IF ~is_read_only(s, x + dx, y + dy)
              THEN <<>>
              ELSE jump_walk_reads(s, x + dx, y + dy, dx, dy))

\* the cells (nx, ny) handed to is_read_only during the walk, in order
jump_walk_reads(s, x, y, dx, dy) ==
    LET nx == x + dx
        ny == y + dy
    IN  IF ~is_within_bounds(s, nx, ny)
        THEN <<>>
        ELSE IF ~is_read_only(s, nx, ny)
             THEN << <<nx, ny>> >>
             ELSE << <<nx, ny>> >> \o jump_walk_reads(s, nx, ny, dx, dy)

\* the number of passes through the body of while True until a return
RECURSIVE jump_walk_steps(_, _, _, _, _)
jump_walk_steps(s, x, y, dx, dy) ==
    LET nx == x + dx
        ny == y + dy
    IN  IF ~is_within_bounds(s, nx, ny)
        THEN 1
        ELSE IF ~is_read_only(s, nx, ny)
             THEN 1
             ELSE 1 + jump_walk_steps(s, nx, ny, dx, dy)

\* ret: the value returned; st: the globals afterwards
jump_across(s, dx, dy) == jump_walk(s, s.cursor_x, s.cursor_y, dx, dy)

move_cursor(s, dx, dy) == jump_across(s, dx, dy).st

\* insert_char without the read_only test
insert_char_unguarded(s, ch) ==
    [s EXCEPT !.data[<<s.current_layer, s.current_axiom>>]
                    .grid[s.cursor_y + s.current_layer][s.cursor_x + s.current_layer] = ch]

\* insert_char writing the symbol into the next layer's copy as well
insert_char_writes_through(s, ch) ==
    LET key == <<s.current_layer, s.current_axiom>>
        up == <<s.current_layer + 1, s.current_axiom>>
        gx == s.cursor_x + s.current_layer
        gy == s.cursor_y + s.current_layer
        t == [s EXCEPT !.data[key].grid[gy][gx] = ch]
    IN  IF s.data[key].read_only[gy][gx]
        THEN s
        ELSE IF up \in DOMAIN s.data
             THEN [t EXCEPT !.data[up].grid[gy + 1][gx + 1] = ch]
             ELSE t

insert_char(s, ch) ==
    LET key == <<s.current_layer, s.current_axiom>>
        read_only == s.data[key].read_only
        center == s.current_layer
        gx == s.cursor_x + center
        gy == s.cursor_y + center
    IN  IF ~read_only[gy][gx]
        THEN [s EXCEPT !.data[key].grid[gy][gx] = ch]
        ELSE s

\* go_to_layer_axiom resetting the cursor to the center instead of the corner
go_to_layer_axiom_center(s, layer, axiom) ==
    [s EXCEPT !.current_layer = layer,
              !.current_axiom = axiom,
              !.data = ensure_layer_axiom(s.data, layer, axiom),
              !.cursor_x = 0,
              !.cursor_y = 0]

\* go_to_layer_axiom leaving the cursor where it is
go_to_layer_axiom_keeps_cursor(s, layer, axiom) ==
    [s EXCEPT !.current_layer = layer,
              !.current_axiom = axiom,
              !.data = ensure_layer_axiom(s.data, layer, axiom)]

go_to_layer_axiom(s, layer, axiom) ==
    [s EXCEPT !.current_layer = layer,
              !.current_axiom = axiom,
              !.data = ensure_layer_axiom(s.data, layer, axiom),
              !.cursor_x = -layer,
              !.cursor_y = -layer]

(***************************************************************************)
(* PrefillEngine.                                                          *)
(***************************************************************************)
\* symbols a configured fill list may hold
FillChars == {"B", DEFAULT_CHAR}

\* __main__ builds each list as a one-element default or as the split of an
\* argument, which has at least one element
FillLists == UNION {[1..n -> FillChars] : n \in 1..MaxFill}

\* the unfrozen ring-band cells (gx, gy) of a grid, in scan order
ring_coords(ro, N) ==
    LET center == N
        open(p) == /\ max(abs(p[1]), abs(p[2])) = N
                   /\ ~ro[p[2] + center][p[1] + center]
        scan == SelectSeq(ScanOrder(N), open)
    IN  [i \in 1..Len(scan) |-> <<scan[i][1] + center, scan[i][2] + center>>]

\* grid[gy][gx] = ch for every (gx, gy) of coords whose index is in picked
fill_cells(grid, coords, picked, ch) ==
    [gy \in DOMAIN grid |-> [gx \in DOMAIN grid[gy] |->
        IF \E i \in picked : coords[i] = <<gx, gy>>
        THEN ch[CHOOSE i \in picked : coords[i] = <<gx, gy>>]
        ELSE grid[gy][gx]]]

\* prefill_one whose sample is drawn with replacement: one cell is hit twice
prefill_one_with_replacement(d, mode, fills, layer, axiom, rnd) ==
    LET d1 == ensure_layer_axiom(d, layer, axiom)
        key == <<layer, axiom>>
        coords == ring_coords(d1[key].read_only, layer)
        all == 1..Len(coords)
        chars_list == fills[axiom]
        hit == rnd[key].selected \ {CHOOSE i \in rnd[key].selected : TRUE}
    IN  IF mode = "partial" /\ layer <= Len(chars_list)
        THEN [d1 EXCEPT ![key].grid =
                fill_cells(d1[key].grid, coords, hit, [i \in all |-> chars_list[layer]])]
        ELSE d1

\* prefill_one taking the first configured symbol at every depth
prefill_one_first_symbol(d, mode, fills, layer, axiom, rnd) ==
    LET d1 == ensure_layer_axiom(d, layer, axiom)
        key == <<layer, axiom>>
        coords == ring_coords(d1[key].read_only, layer)
        all == 1..Len(coords)
        chars_list == fills[axiom]
    IN  IF Len(chars_list) > 0 /\ chars_list[1] # DEFAULT_CHAR
        THEN [d1 EXCEPT ![key].grid =
                fill_cells(d1[key].grid, coords,
                           IF mode = "full" THEN all ELSE rnd[key].selected,
                           [i \in all |-> chars_list[1]])]
        ELSE d1

\* the body of the two loops for one (layer, axiom); rnd holds the outcome of
\* random.sample (indices into ring_coords) and of random.choice per index
prefill_one(d, mode, fills, layer, axiom, rnd) ==
    LET d1 == ensure_layer_axiom(d, layer, axiom)
        key == <<layer, axiom>>
        grid == d1[key].grid
        ro == d1[key].read_only
        coords == ring_coords(ro, layer)
        total == Len(coords)
        chars_list == fills[axiom]
        \* <<c>> for a configured symbol, <<>> for None
        base_char == IF layer <= Len(chars_list)
                     THEN <<chars_list[layer]>> ELSE <<>>
        all == 1..total
        write(picked, ch) ==
            [d1 EXCEPT ![key].grid = fill_cells(grid, coords, picked, ch)]
    IN  IF total = 0 THEN d1
        ELSE CASE mode = "full" ->
                    IF base_char # <<>> /\ base_char[1] \notin {DEFAULT_CHAR}
                    THEN write(all, [i \in all |-> base_char[1]])
                    ELSE d1
               [] mode = "partial" ->
                    IF base_char # <<>>
                    THEN write(rnd[key].selected,
                               [i \in all |-> base_char[1]])
                    ELSE d1
               [] mode = "random" ->
                    IF Len(chars_list) > 0
                    THEN write(rnd[key].selected,
                               [i \in all |-> chars_list[rnd[key].choice[i]]])
                    ELSE d1
               [] OTHER -> d1

\* the loops: layer = 1..max_layers outer, axiom inner, entered at
\* (layer, the i-th axiom)
RECURSIVE prefill_loop(_, _, _, _, _, _, _)
prefill_loop(d, mode, fills, max_layers, layer, i, rnd) ==
    IF layer > max_layers THEN d
    ELSE IF i > NumAxioms
         THEN prefill_loop(d, mode, fills, max_layers, layer + 1, 1, rnd)
         ELSE prefill_loop(prefill_one(d, mode, fills, layer, AXIOM_CONFIGS[i], rnd),
                           mode, fills, max_layers, layer, i + 1, rnd)

RECURSIVE MaxLen(_, _)
MaxLen(fills, S) ==
    IF S = {} THEN 0
    ELSE LET a == CHOOSE x \in S : TRUE
         IN  max(Len(fills[a]), MaxLen(fills, S \ {a}))

prefill_layers(d, mode, fills, rnd) ==
    prefill_loop(d, mode, fills, MaxLen(fills, Axioms), 1, 1, rnd)

(***************************************************************************)
(* CoordinateProjector.  cos, sin and sqrt(2)/2 are kept symbolic: a       *)
(* scalar is a tuple naming the value, and a coordinate is a signed scalar,*)
(* multiplied by factor when fold is set.  An angle 2*pi*i/K and a         *)
(* fraction i/K are both given as <<i, K>>.                                *)
(***************************************************************************)
Coord(sign, of, fold) == [sign |-> sign, of |-> of, fold |-> fold]

\* the literal 0 of the return statements
Zero == Coord(0, <<"0", 0, 0, 0>>, FALSE)

\* layer * cos(angle) and layer * sin(angle)
layer_cos(layer, angle) == <<"cos", layer, angle[1], angle[2]>>

layer_sin(layer, angle) == <<"sin", layer, angle[1], angle[2]>>

\* calculate_coordinates with the minus signs of the H, I and J branches lost
calculate_coordinates_unsigned(axiom, layer, angle) ==
    LET cos_theta == layer_cos(layer, angle)
        sin_theta == layer_sin(layer, angle)
    IN  CASE axiom \in {"A"} -> <<Coord(1, cos_theta, FALSE), Coord(1, sin_theta, FALSE), Zero>>
          [] axiom \in {"B"} -> <<Zero, Coord(1, cos_theta, FALSE), Coord(1, sin_theta, FALSE)>>
          [] axiom \in {"C"} -> <<Coord(1, cos_theta, FALSE), Zero, Coord(1, sin_theta, FALSE)>>
          [] axiom \in {"D", "H"} -> <<Coord(1, cos_theta, FALSE), Coord(1, sin_theta, TRUE),
                                      Coord(1, sin_theta, TRUE)>>
          [] axiom \in {"E", "I"} -> <<Coord(1, sin_theta, TRUE), Coord(1, cos_theta, FALSE),
                                      Coord(1, sin_theta, TRUE)>>
          [] axiom \in {"F", "J"} -> <<Coord(1, sin_theta, TRUE), Coord(1, sin_theta, TRUE),
                                      Coord(1, cos_theta, FALSE)>>
          [] OTHER -> <<Zero, Zero, Zero>>

calculate_coordinates(axiom, layer, angle) ==
    LET cos_theta == layer_cos(layer, angle)
        sin_theta == layer_sin(layer, angle)
    IN  CASE axiom = "A" -> <<Coord(1, cos_theta, FALSE), Coord(1, sin_theta, FALSE), Zero>>
          [] axiom = "B" -> <<Zero, Coord(1, cos_theta, FALSE), Coord(1, sin_theta, FALSE)>>
          [] axiom = "C" -> <<Coord(1, cos_theta, FALSE), Zero, Coord(1, sin_theta, FALSE)>>
          [] axiom = "D" -> <<Coord(1, cos_theta, FALSE), Coord(1, sin_theta, TRUE),
                              Coord(1, sin_theta, TRUE)>>
          [] axiom = "E" -> <<Coord(1, sin_theta, TRUE), Coord(1, cos_theta, FALSE),
                              Coord(1, sin_theta, TRUE)>>
          [] axiom = "F" -> <<Coord(1, sin_theta, TRUE), Coord(1, sin_theta, TRUE),
                              Coord(1, cos_theta, FALSE)>>
          [] axiom = "H" -> <<Coord(1, cos_theta, FALSE), Coord(1, sin_theta, TRUE),
                              Coord(-1, sin_theta, TRUE)>>
          [] axiom = "I" -> <<Coord(-1, sin_theta, TRUE), Coord(1, cos_theta, FALSE),
                              Coord(1, sin_theta, TRUE)>>
          [] axiom = "J" -> <<Coord(-1, sin_theta, TRUE), Coord(1, sin_theta, TRUE),
                              Coord(1, cos_theta, FALSE)>>
          [] OTHER -> <<Zero, Zero, Zero>>

\* math.atan2(y, x) for integers lies in (-pi, 0) when y < 0, is 0 when
\* y = 0 and x >= 0, lies in (0, pi) when y > 0, and is pi when y = 0, x < 0
atan2_class(x, y) ==
    IF y < 0 THEN 0 ELSE IF y > 0 THEN 2 ELSE IF x >= 0 THEN 1 ELSE 3

\* math.atan2(c[1], c[0]) < math.atan2(e[1], e[0]) for cells c = (x, y, ch)
atan2_less(c, e) ==
    \/ atan2_class(c[1], c[2]) < atan2_class(e[1], e[2])
    \/ /\ atan2_class(c[1], c[2]) = atan2_class(e[1], e[2])
       /\ atan2_class(c[1], c[2]) \in {0, 2}
       /\ c[1] * e[2] - c[2] * e[1] > 0

\* sort_insert leaving the cells in the order they came
sort_insert_appends(sorted, c) == Append(sorted, c)

\* list.sort is stable: c goes behind every cell whose key is not greater
sort_insert(sorted, c) ==
    LET k == Cardinality({j \in 1..Len(sorted) : ~atan2_less(c, sorted[j])})
    IN  SubSeq(sorted, 1, k) \o <<c>> \o SubSeq(sorted, k + 1, Len(sorted))

RECURSIVE sort_by_atan2(_)
sort_by_atan2(ring_cells) ==
    IF ring_cells = <<>>
    THEN <<>>
    ELSE sort_insert(sort_by_atan2(SubSeq(ring_cells, 1, Len(ring_cells) - 1)),
                     ring_cells[Len(ring_cells)])

\* what one pass of the loop over data.keys() leaves in x_vals, y_vals,
\* z_vals and text_vals; emitted tells whether the pass got beyond the
\* continue of the empty ring
Trace(emitted, x, y, z, text) ==
    [emitted |-> emitted, x |-> x, y |-> y, z |-> z, text |-> text]

NoTrace == Trace(FALSE, <<>>, <<>>, <<>>, <<>>)

\* render_3d_ring closing the polyline of a single point as well
render_3d_ring_closes_single(ring, layer, axiom) ==
    LET ring_cells == sort_by_atan2(ring)
        K == Len(ring_cells)
        pts == [i \in 1..K |-> calculate_coordinates(axiom, layer, <<i - 1, K>>)]
        vals(n) == [i \in 1..K |-> pts[i][n]] \o << pts[1][n] >>
    IN  IF K = 0
        THEN NoTrace
        ELSE Trace(TRUE, vals(1), vals(2), vals(3), [i \in 1..K |-> ring_cells[i][3]])

\* render_3d_ring without the continue of the empty ring
render_3d_ring_no_continue(ring, layer, axiom) ==
    LET ring_cells == sort_by_atan2(ring)
        K == Len(ring_cells)
        pts == [i \in 1..K |-> calculate_coordinates(axiom, layer, <<i - 1, K>>)]
        vals(n) == IF K > 1 THEN [i \in 1..K |-> pts[i][n]] \o << pts[1][n] >>
                            ELSE [i \in 1..K |-> pts[i][n]]
    IN  Trace(TRUE, vals(1), vals(2), vals(3), [i \in 1..K |-> ring_cells[i][3]])

\* the body of the loop over data.keys() for the cells ring of (layer, axiom)
render_3d_ring(ring, layer, axiom) ==
    LET ring_cells == sort_by_atan2(ring)
        K == Len(ring_cells)
        pts == [i \in 1..K |-> calculate_coordinates(axiom, layer, <<i - 1, K>>)]
        x_vals == [i \in 1..K |-> pts[i][1]]
        y_vals == [i \in 1..K |-> pts[i][2]]
        z_vals == [i \in 1..K |-> pts[i][3]]
        text_vals == [i \in 1..K |-> ring_cells[i][3]]
    IN  IF K = 0
        THEN NoTrace
        ELSE IF Len(x_vals) > 1
             THEN Trace(TRUE, Append(x_vals, x_vals[1]), Append(y_vals, y_vals[1]),
                        Append(z_vals, z_vals[1]), text_vals)
             ELSE Trace(TRUE, x_vals, y_vals, z_vals, text_vals)

\* max(layer for layer, _ in data.keys()) raises ValueError on an empty cache
render_3d_raises(d) == DOMAIN d = {}

(***************************************************************************)
(* The square strategy of old_versions/axiom_square_beta.py.  The store,   *)
(* the ring extractor and the key loop of that file are those above; a     *)
(* plane scalar n/den is the tuple <<"sq", n, den, 0>>.                     *)
(***************************************************************************)
Sq(n, den) == <<"sq", n, den, 0>>

\* calculate_square_2d walking bottom, right, top, left
calculate_square_2d_starts_bottom(layer, fraction) ==
    LET i == fraction[1] % fraction[2]
        K == fraction[2]
        side == 2 * layer
    IN  IF layer = 0
        THEN <<Sq(0, 1), Sq(0, 1)>>
        ELSE IF 4 * i < K
        THEN <<Sq(-layer * K + (4 * i) * side, K), Sq(-layer * K, K)>>
        ELSE IF 4 * i < 2 * K
        THEN <<Sq(layer * K, K), Sq(-layer * K + (4 * i - K) * side, K)>>
        ELSE IF 4 * i < 3 * K
        THEN <<Sq(layer * K - (4 * i - 2 * K) * side, K), Sq(layer * K, K)>>
        ELSE <<Sq(-layer * K, K), Sq(layer * K - (4 * i - 3 * K) * side, K)>>

calculate_square_2d(layer, fraction) ==
    LET i == fraction[1] % fraction[2]
        K == fraction[2]
        side == 2 * layer
    IN  IF layer = 0
        THEN <<Sq(0, 1), Sq(0, 1)>>
        ELSE IF 4 * i < K
        THEN <<Sq(-layer * K + (4 * i) * side, K), Sq(layer * K, K)>>
        ELSE IF 4 * i < 2 * K
        THEN <<Sq(layer * K, K), Sq(layer * K - (4 * i - K) * side, K)>>
        ELSE IF 4 * i < 3 * K
        THEN <<Sq(layer * K - (4 * i - 2 * K) * side, K), Sq(-layer * K, K)>>
        ELSE <<Sq(-layer * K, K), Sq(-layer * K + (4 * i - 3 * K) * side, K)>>

calculate_square_coordinates(axiom, layer, fraction) ==
    LET x2d == calculate_square_2d(layer, fraction)[1]
        y2d == calculate_square_2d(layer, fraction)[2]
    IN  CASE axiom = "A" -> <<Coord(1, x2d, FALSE), Coord(1, y2d, FALSE), Zero>>
          [] axiom = "B" -> <<Zero, Coord(1, x2d, FALSE), Coord(1, y2d, FALSE)>>
          [] axiom = "C" -> <<Coord(1, x2d, FALSE), Zero, Coord(1, y2d, FALSE)>>
          [] axiom = "D" -> <<Coord(1, x2d, FALSE), Coord(1, y2d, TRUE), Coord(1, y2d, TRUE)>>
          [] axiom = "E" -> <<Coord(1, y2d, TRUE), Coord(1, x2d, FALSE), Coord(1, y2d, TRUE)>>
          [] axiom = "F" -> <<Coord(1, y2d, TRUE), Coord(1, y2d, TRUE), Coord(1, x2d, FALSE)>>
          [] axiom = "H" -> <<Coord(1, x2d, FALSE), Coord(1, y2d, TRUE), Coord(-1, y2d, TRUE)>>
          [] axiom = "I" -> <<Coord(-1, y2d, TRUE), Coord(1, x2d, FALSE), Coord(1, y2d, TRUE)>>
          [] axiom = "J" -> <<Coord(-1, y2d, TRUE), Coord(1, y2d, TRUE), Coord(1, x2d, FALSE)>>
          [] OTHER -> <<Zero, Zero, Zero>>

\* the body of the loop over data.keys() of the square render_3d
render_3d_square_ring(ring, layer, axiom) ==
    LET ring_cells == sort_by_atan2(ring)
        K == Len(ring_cells)
        pts == [i \in 1..K |-> calculate_square_coordinates(axiom, layer, <<i - 1, K>>)]
        x_vals == [i \in 1..K |-> pts[i][1]]
        y_vals == [i \in 1..K |-> pts[i][2]]
        z_vals == [i \in 1..K |-> pts[i][3]]
        text_vals == [i \in 1..K |-> ring_cells[i][3]]
    IN  IF K = 0
        THEN NoTrace
        ELSE IF Len(x_vals) > 1
             THEN Trace(TRUE, Append(x_vals, x_vals[1]), Append(y_vals, y_vals[1]),
                        Append(z_vals, z_vals[1]), Append(text_vals, text_vals[1]))
             ELSE Trace(TRUE, x_vals, y_vals, z_vals, text_vals)

(***************************************************************************)
(* The program: __main__ and the key loop of run.                          *)
(***************************************************************************)
\* the module globals
State ==
    [data |-> data, current_layer |-> current_layer,
     current_axiom |-> current_axiom, cursor_x |-> cursor_x,
     cursor_y |-> cursor_y]

Becomes(t) ==
    /\ data' = t.data
    /\ current_layer' = t.current_layer
    /\ current_axiom' = t.current_axiom
    /\ cursor_x' = t.cursor_x
    /\ cursor_y' = t.cursor_y

Init ==
    /\ data = <<>>
    /\ current_layer = 0
    /\ current_axiom = "A"
    /\ cursor_x = 0
    /\ cursor_y = 0
    /\ pc = "main"
    /\ writes = 0

\* __main__ with --prefill and the default mode
MainPrefill ==
    /\ pc = "main"
    /\ \E fills \in [Axioms -> FillLists] :
          Becomes([State EXCEPT !.data = prefill_layers(data, "full", fills, <<>>)])
    /\ pc' = "prefilled"
    /\ UNCHANGED writes

\* run up to the first getch
RunStart ==
    /\ pc \in {"main", "prefilled"}
    /\ Becomes(go_to_layer_axiom(State, 0, "A"))
    /\ pc' = "run"
    /\ UNCHANGED writes

\* F1..F9
KeyAxiom(axiom) ==
    /\ pc = "run"
    /\ Becomes(go_to_layer_axiom(State, current_layer, axiom))
    /\ UNCHANGED <<pc, writes>>

KeyPlus ==
    /\ pc = "run"
    /\ current_layer < MaxLayer
    /\ Becomes(go_to_layer_axiom(State, current_layer + 1, current_axiom))
    /\ UNCHANGED <<pc, writes>>

KeyMinus ==
    /\ pc = "run"
    /\ current_layer > 0
    /\ Becomes(go_to_layer_axiom(State, current_layer - 1, current_axiom))
    /\ UNCHANGED <<pc, writes>>

KeyArrow(dx, dy) ==
    /\ pc = "run"
    /\ Becomes(move_cursor(State, dx, dy))
    /\ UNCHANGED <<pc, writes>>

KeyChar(ch) ==
    /\ pc = "run"
    /\ writes < MaxWrites
    /\ Becomes(insert_char(State, ch))
    /\ writes' = writes + 1
    /\ UNCHANGED pc

Next ==
    \/ MainPrefill
    \/ RunStart
    \/ \E axiom \in Axioms : KeyAxiom(axiom)
    \/ KeyPlus
    \/ KeyMinus
    \/ \E d \in Dirs : KeyArrow(d[1], d[2])
    \/ \E ch \in KeyChars : KeyChar(ch)

Spec == Init /\ [][Next]_vars

(***************************************************************************)
(* The key loop without --prefill on axiom A, up to layer RenderLayer, the *)
(* user typing one glyph any number of times: every subset of a ring gets  *)
(* filled, so render_3d meets rings of every size.                         *)
(***************************************************************************)
RenderLayer == 1

\* chr(key) of the one printable key pressed
RenderChars == {"#"}

RenderKeyPlus ==
    /\ pc = "run"
    /\ current_layer < RenderLayer
    /\ Becomes(go_to_layer_axiom(State, current_layer + 1, current_axiom))
    /\ UNCHANGED <<pc, writes>>

RenderKeyChar(ch) ==
    /\ pc = "run"
    /\ Becomes(insert_char(State, ch))
    /\ UNCHANGED <<pc, writes>>

RenderNext ==
    \/ RunStart
    \/ RenderKeyPlus
    \/ KeyMinus
    \/ \E d \in Dirs : KeyArrow(d[1], d[2])
    \/ \E ch \in RenderChars : RenderKeyChar(ch)

RenderSpec == Init /\ [][RenderNext]_vars

(***************************************************************************)
(* __main__ with --prefill --mode=partial, up to the first getch.  The     *)
(* outcome of random.sample(ring_coords, total // 2) is any set of         *)
(* total // 2 indices; the outcomes explored are those that repeat one     *)
(* choice S of four out of eight along the ring, or its complement.        *)
(***************************************************************************)
Samples == {S \in SUBSET (1..8) : Cardinality(S) = 4}

sample(total, S) == {i \in 1..total : ((i - 1) % 8) + 1 \in S}

\* the samples of one run: S for the first axiom, the complement for the others
random_outcome(S) ==
    [key \in (1..MaxLayer) \X Axioms |->
        [selected |-> sample(8 * key[1],
                             IF key[2] = AXIOM_CONFIGS[1] THEN S ELSE (1..8) \ S),
         choice |-> [i \in 1..(8 * key[1]) |-> 1]]]

MainPrefillPartial ==
    /\ pc = "main"
    /\ \E fills \in [Axioms -> FillLists], S \in Samples :
          Becomes([State EXCEPT
                      !.data = prefill_layers(data, "partial", fills, random_outcome(S))])
    /\ pc' = "prefilled"
    /\ UNCHANGED writes

PartialNext ==
    \/ MainPrefillPartial
    \/ RunStart

PartialSpec == Init /\ [][PartialNext]_vars

(***************************************************************************)
(* Vocabulary of the properties: logical (centered) coordinates.           *)
(***************************************************************************)
Sym(d, N, A, x, y) == d[<<N, A>>].grid[y + N][x + N]

Frozen(d, N, A, x, y) == d[<<N, A>>].read_only[y + N][x + N]

Cheb(x, y) == max(abs(x), abs(y))

Square(N) == (-N..N) \X (-N..N)

Blanked(ch) == IF ch = CENTER_CHAR THEN " " ELSE ch

Layers == 0..MaxLayer

(***************************************************************************)
(* C1.  Promotion invariant.                                               *)
(***************************************************************************)
\* C1 as stated: in every reachable state, for every cached grid(N,A) with
\* N > 0, every cell of the centered (2N-1)x(2N-1) sub-square is frozen and
\* holds the symbol CURRENTLY stored at that position of grid(N-1,A), the
\* origin marker replaced by blank.
C1_PromotionCurrent ==
    \A key \in DOMAIN data :
        key[1] > 0 /\ <<key[1] - 1, key[2]>> \in DOMAIN data =>
            \A p \in Square(key[1] - 1) :
                /\ Frozen(data, key[1], key[2], p[1], p[2])
                /\ Sym(data, key[1], key[2], p[1], p[2]) =
                       Blanked(Sym(data, key[1] - 1, key[2], p[1], p[2]))

C1_SubSquareFrozen ==
    \A key \in DOMAIN data :
        key[1] > 0 =>
            \A p \in Square(key[1] - 1) :
                Frozen(data, key[1], key[2], p[1], p[2])

\* the sub-square of a grid built by this step is a copy of grid(N-1,A) as it
\* is when the step ends; the sub-square of a grid cached before is unchanged
C1_SnapshotStep ==
    \/ data' = data
    \/ \A key \in DOMAIN data' :
          key[1] > 0 =>
              IF key \in DOMAIN data
              THEN \/ data'[key] = data[key]
                   \/ \A p \in Square(key[1] - 1) :
                         Sym(data', key[1], key[2], p[1], p[2]) =
                             Sym(data, key[1], key[2], p[1], p[2])
              ELSE \A p \in Square(key[1] - 1) :
                       Sym(data', key[1], key[2], p[1], p[2]) =
                           Blanked(Sym(data', key[1] - 1, key[2], p[1], p[2]))

\* C1 as amended: for every cached grid(N,A) with N > 0, every cell of the
\* centered sub-square is frozen, and its symbol is the one grid(N-1,A) held
\* at that position when grid(N,A) was built (origin marker replaced by
\* blank); it keeps that symbol whatever is written to grid(N-1,A) later.
C1_PromotionAtBuild == []C1_SubSquareFrozen /\ [][C1_SnapshotStep]_vars

\* grid(1,A) was built, then the origin cell of grid(0,A) was overwritten
C1_Witness ==
    /\ <<1, "A">> \in DOMAIN data
    /\ Sym(data, 0, "A", 0, 0) = "#"
    /\ Sym(data, 1, "A", 0, 0) = " "

(***************************************************************************)
(* C2.  Cursor invariant.                                                  *)
(***************************************************************************)
\* C2: in every state after the initial go_to_layer_axiom(0,'A'), the cursor
\* lies within [-current_layer, current_layer]^2 of the cached grid of the
\* current context, and the cell it addresses is unfrozen.
C2_CursorUnfrozen ==
    pc = "run" =>
        /\ <<current_layer, current_axiom>> \in DOMAIN data
        /\ is_within_bounds(State, cursor_x, cursor_y)
        /\ ~Frozen(data, current_layer, current_axiom, cursor_x, cursor_y)

\* the cursor has jumped over the frozen interior of a layer-2 grid
C2_Witness ==
    /\ pc = "run"
    /\ current_layer = 2
    /\ cursor_x = 2
    /\ cursor_y = 0

(***************************************************************************)
(* C3.  Frozen cells keep their symbol.                                    *)
(***************************************************************************)
C3_FrozenKeptStep ==
    \/ data' = data
    \/ \A key \in DOMAIN data :
          /\ key \in DOMAIN data'
          /\ \/ data'[key] = data[key]
             \/ \A p \in Square(key[1]) :
                   Frozen(data, key[1], key[2], p[1], p[2]) =>
                       Sym(data', key[1], key[2], p[1], p[2]) =
                           Sym(data, key[1], key[2], p[1], p[2])

\* insert_char with the cursor placed on any frozen cell of the current grid
\* returns the globals it was given; the body of prefill_layers' loops, run
\* for the current grid as it is, leaves the symbol of each of its frozen cells
C3_FrozenWriteIgnored ==
    pc = "run" =>
        /\ \A p \in Square(current_layer) :
              Frozen(data, current_layer, current_axiom, p[1], p[2]) =>
                  \A ch \in KeyChars :
                      LET s == [State EXCEPT !.cursor_x = p[1], !.cursor_y = p[2]]
                      IN  insert_char(s, ch) = s
        /\ \A c \in FillChars :
              current_layer > 0 =>
                  LET fills == [a \in Axioms |-> [i \in 1..current_layer |-> c]]
                      d2 == prefill_one(data, "full", fills, current_layer,
                                        current_axiom, <<>>)
                  IN  \A p \in Square(current_layer) :
                          Frozen(data, current_layer, current_axiom, p[1], p[2]) =>
                              Sym(d2, current_layer, current_axiom, p[1], p[2]) =
                                  Sym(data, current_layer, current_axiom, p[1], p[2])

\* C3: the symbol of a frozen cell of a cached grid is never changed by a
\* step (insert_char, move_cursor, go_to_layer_axiom, prefill_layers), and
\* insert_char with the cursor on a frozen cell changes nothing at all.
C3_FrozenNeverChanges == []C3_FrozenWriteIgnored /\ [][C3_FrozenKeptStep]_vars

\* a frozen cell holds a user-written symbol and its unfrozen original, one
\* layer below, has been overwritten since
C3_Witness ==
    /\ pc = "run"
    /\ <<2, "A">> \in DOMAIN data
    /\ Frozen(data, 2, "A", -1, -1)
    /\ Sym(data, 2, "A", -1, -1) = "B"
    /\ Sym(data, 1, "A", -1, -1) = "#"

(***************************************************************************)
(* C4.  A successful move lands on the first unfrozen cell of the ray.     *)
(***************************************************************************)
\* C4: whenever move_cursor(dx,dy) moves the cursor from C to C', C' is
\* C + k*(dx,dy) for some k >= 1, is within bounds and unfrozen, and every
\* cell C + j*(dx,dy), 0 < j < k, is frozen.
C4_FirstUnfrozenOnRay ==
    pc = "run" =>
        \A d \in Dirs :
            LET r == jump_across(State, d[1], d[2])
                t == move_cursor(State, d[1], d[2])
            IN  r.ret =>
                    \E k \in 1..(2 * current_layer) :
                        /\ t.cursor_x = cursor_x + k * d[1]
                        /\ t.cursor_y = cursor_y + k * d[2]
                        /\ is_within_bounds(State, t.cursor_x, t.cursor_y)
                        /\ ~Frozen(data, current_layer, current_axiom,
                                   t.cursor_x, t.cursor_y)
                        /\ \A j \in 1..(k - 1) :
                              Frozen(data, current_layer, current_axiom,
                                     cursor_x + j * d[1], cursor_y + j * d[2])

\* a move to the right from here skips three frozen cells
C4_Witness ==
    /\ pc = "run"
    /\ current_layer = 2
    /\ cursor_x = -2
    /\ cursor_y = 0
    /\ jump_across(State, 1, 0).ret
    /\ move_cursor(State, 1, 0).cursor_x = 2

(***************************************************************************)
(* C5.  A move that runs out of bounds is rejected.                        *)
(***************************************************************************)
\* no in-bounds unfrozen cell lies ahead of the cursor in direction (dx, dy)
NothingAhead(dx, dy) ==
    \A k \in 1..(2 * current_layer) :
        is_within_bounds(State, cursor_x + k * dx, cursor_y + k * dy) =>
            Frozen(data, current_layer, current_axiom,
                   cursor_x + k * dx, cursor_y + k * dy)

\* C5: when the walk of move_cursor(dx,dy) leaves the grid before it finds
\* an unfrozen cell, jump_across returns False and the globals (cursor,
\* context, every grid and frozen flag) are those before the call.
C5_RejectedMoveNoChange ==
    pc = "run" =>
        \A d \in Dirs :
            NothingAhead(d[1], d[2]) =>
                /\ ~jump_across(State, d[1], d[2]).ret
                /\ move_cursor(State, d[1], d[2]) = State

\* on the right edge of a layer-2 grid: a move to the right leaves the grid at
\* once, a move to the left is possible
C5_Witness ==
    /\ pc = "run"
    /\ current_layer = 2
    /\ cursor_x = 2
    /\ cursor_y = 1
    /\ NothingAhead(1, 0)
    /\ ~NothingAhead(-1, 0)

(***************************************************************************)
(* C6.  ensure_layer_axiom is idempotent.                                  *)
(***************************************************************************)
\* C6: ensure_layer_axiom(N,A) on a cached key leaves the whole cache (key
\* set, symbols, frozen flags, user and prefill edits) as it is, so does a
\* go_to_layer_axiom to a cached key, and a second call right after a first
\* changes nothing.
C6_EnsureIdempotent ==
    /\ \A key \in DOMAIN data :
          /\ ensure_layer_axiom(data, key[1], key[2]) = data
          /\ go_to_layer_axiom(State, key[1], key[2]).data = data
    /\ \A N \in Layers, A \in Axioms :
          LET d1 == ensure_layer_axiom(data, N, A)
          IN  ensure_layer_axiom(d1, N, A) = d1

\* cached grids carry a prefill edit and a user edit that a rebuild would lose
C6_Witness ==
    /\ pc = "run"
    /\ <<2, "A">> \in DOMAIN data
    /\ Sym(data, 1, "A", 1, 0) = "B"
    /\ Sym(data, 2, "A", -2, -2) = "#"

(***************************************************************************)
(* C7.  Write / read round trip.                                           *)
(***************************************************************************)
RingHas(d, N, A, c) ==
    LET ring == get_outer_ring_cells(d, N, A)
    IN  \E i \in 1..Len(ring) : ring[i] = c

Filtered == {" ", "", DEFAULT_CHAR}

\* C7: after insert_char(ch) with the cursor on an unfrozen cell, the cell at
\* the cursor of the current grid holds ch, and for current_layer > 0 and ch
\* none of blank, empty, default, get_outer_ring_cells of the current context
\* contains (cursor_x, cursor_y, ch).  The states right after
\* go_to_layer_axiom(N,A) are the case (cursor_x, cursor_y) = (-N, -N).
C7_WriteReadRoundTrip ==
    pc = "run" =>
        \A ch \in KeyChars :
            ~Frozen(data, current_layer, current_axiom, cursor_x, cursor_y) =>
                LET t == insert_char(State, ch)
                IN  /\ Sym(t.data, current_layer, current_axiom,
                           cursor_x, cursor_y) = ch
                    /\ current_layer > 0 /\ ch \notin Filtered =>
                          RingHas(t.data, current_layer, current_axiom,
                                  <<cursor_x, cursor_y, ch>>)

\* the scenario of the specification: go_to_layer_axiom(2,'A') put the cursor
\* on (-2,-2), '#' was written there and the ring of (2,'A') reports it
C7_Witness ==
    /\ pc = "run"
    /\ writes = 1
    /\ current_layer = 2
    /\ current_axiom = "A"
    /\ cursor_x = -2
    /\ cursor_y = -2
    /\ Sym(data, 2, "A", -2, -2) = "#"
    /\ RingHas(data, 2, "A", <<-2, -2, "#">>)

(***************************************************************************)
(* C8.  Postcondition of go_to_layer_axiom.                                *)
(***************************************************************************)
\* C8: after go_to_layer_axiom(layer, axiom), from any cursor and context
\* (the same context included), grid(layer, axiom) is cached, the context is
\* (layer, axiom), the cursor is (-layer, -layer), and the symbols and frozen
\* flags of the grids cached before are unmodified.
C8_SwitchContextPost ==
    \A N \in Layers, A \in Axioms :
        LET t == go_to_layer_axiom(State, N, A)
        IN  /\ <<N, A>> \in DOMAIN t.data
            /\ t.current_layer = N
            /\ t.current_axiom = A
            /\ t.cursor_x = -N
            /\ t.cursor_y = -N
            /\ \A key \in DOMAIN data :
                  key \in DOMAIN t.data /\ t.data[key] = data[key]

\* the context was switched to (2,B) after an edit of a grid of axiom A; the
\* cursor, away from the corner before, is on the corner
C8_Witness ==
    /\ pc = "run"
    /\ current_layer = 2
    /\ current_axiom = "B"
    /\ cursor_x = -2
    /\ cursor_y = -2
    /\ <<2, "A">> \in DOMAIN data
    /\ Sym(data, 2, "A", 2, 2) = "#"

(***************************************************************************)
(* C9.  Build rule.                                                        *)
(***************************************************************************)
\* C9: the grid create_layer_axiom(N,A) stores for an uncached key has, for
\* N > 0, every cell at Chebyshev distance N unfrozen and default, and every
\* cell at distance < N frozen (whatever its flag in grid(N-1,A)) and holding
\* the symbol of grid(N-1,A) at that position, the origin marker translated
\* to blank; for N = 0 its one cell is the origin marker, unfrozen.
C9_BuildRule ==
    \A N \in Layers, A \in Axioms :
        <<N, A>> \notin DOMAIN data =>
            LET d2 == create_layer_axiom(data, N, A)
            IN  /\ <<N, A>> \in DOMAIN d2
                /\ DOMAIN d2[<<N, A>>].grid = 0..(2 * N)
                /\ \A p \in Square(N) :
                      IF Cheb(p[1], p[2]) = N /\ N > 0
                      THEN /\ ~Frozen(d2, N, A, p[1], p[2])
                           /\ Sym(d2, N, A, p[1], p[2]) = DEFAULT_CHAR
                      ELSE IF N = 0
                      THEN /\ ~Frozen(d2, N, A, p[1], p[2])
                           /\ Sym(d2, N, A, p[1], p[2]) = CENTER_CHAR
                      ELSE /\ Frozen(d2, N, A, p[1], p[2])
                           /\ Sym(d2, N, A, p[1], p[2]) =
                                  Blanked(Sym(d2, N - 1, A, p[1], p[2]))
                /\ \A key \in DOMAIN data : d2[key] = data[key]

\* grid(2,A) is about to be built from a grid(1,A) whose unfrozen ring holds
\* a user-written origin marker
C9_Witness ==
    /\ pc = "run"
    /\ <<1, "A">> \in DOMAIN data
    /\ <<2, "A">> \notin DOMAIN data
    /\ Sym(data, 1, "A", -1, -1) = "O"
    /\ ~Frozen(data, 1, "A", -1, -1)
    /\ Sym(create_layer_axiom(data, 2, "A"), 2, "A", -1, -1) = " "

(***************************************************************************)
(* C10.  Frozen monotonicity.                                              *)
(***************************************************************************)
\* C10: for every axiom A and cached layers N < M, every cell of grid(N,A),
\* frozen or not, is frozen at the same logical position of grid(M,A).
C10_FrozenMonotonic ==
    \A k1 \in DOMAIN data, k2 \in DOMAIN data :
        k1[2] = k2[2] /\ k1[1] < k2[1] =>
            \A p \in Square(k1[1]) :
                /\ Frozen(data, k2[1], k2[2], p[1], p[2])
                /\ Frozen(data, k1[1], k1[2], p[1], p[2]) =>
                       Frozen(data, k2[1], k2[2], p[1], p[2])

\* three layers of one axiom are cached, the middle one with an unfrozen
\* edited ring cell
C10_Witness ==
    /\ {<<0, "B">>, <<1, "B">>, <<2, "B">>} \subseteq DOMAIN data
    /\ ~Frozen(data, 1, "B", 1, 1)
    /\ Sym(data, 1, "B", 1, 1) = "#"
    /\ Frozen(data, 2, "B", 1, 1)

(***************************************************************************)
(* C11.  Cache chain closure and build order.                              *)
(***************************************************************************)
\* C11: in every reachable state, if (N,A) is cached with N > 0 then (M,A)
\* is cached for every 0 <= M < N; and whenever ensure_layer_axiom(N,A)
\* stores grids, each (L,A) with L > 0 is stored after (L-1,A) is in the
\* cache (cached before the call, or stored earlier in it).
C11_ChainClosedAndOrdered ==
    /\ \A key \in DOMAIN data :
          \A M \in 0..(key[1] - 1) : <<M, key[2]>> \in DOMAIN data
    /\ \A N \in Layers, A \in Axioms :
          LET st == ensure_layer_axiom_stores(data, N, A)
              d2 == ensure_layer_axiom(data, N, A)
          IN  /\ DOMAIN d2 = (DOMAIN data) \cup {st[i] : i \in 1..Len(st)}
              /\ \A M \in 0..N : <<M, A>> \in DOMAIN d2
              /\ \A i \in 1..Len(st) :
                    st[i][1] > 0 =>
                        <<st[i][1] - 1, st[i][2]>> \in
                            (DOMAIN data) \cup {st[j] : j \in 1..(i - 1)}

\* the chain of axiom B up to layer 2 is cached, built by the key loop in one
\* call (prefill would have built layer 1 of axiom A as well)
C11_Witness ==
    /\ pc = "run"
    /\ {<<0, "B">>, <<1, "B">>, <<2, "B">>} \subseteq DOMAIN data
    /\ <<1, "A">> \in DOMAIN data
    /\ current_axiom = "B"
    /\ current_layer = 2

(***************************************************************************)
(* C12.  Cache permanence.                                                 *)
(***************************************************************************)
\* no call of ensure_layer_axiom touches a cached grid, and the keys it
\* builds are uncached and pairwise distinct
C12_NoRebuild ==
    \A N \in Layers, A \in Axioms :
        LET st == ensure_layer_axiom_stores(data, N, A)
            d2 == ensure_layer_axiom(data, N, A)
        IN  /\ \A key \in DOMAIN data :
                  key \in DOMAIN d2 /\ d2[key] = data[key]
            /\ \A i \in 1..Len(st) :
                  /\ st[i] \notin DOMAIN data
                  /\ \A j \in 1..(i - 1) : st[j] # st[i]

C12_PermanentStep ==
    \/ data' = data
    \/ \A key \in DOMAIN data :
          /\ key \in DOMAIN data'
          /\ DOMAIN data'[key].grid = DOMAIN data[key].grid
          /\ DOMAIN data'[key].read_only = DOMAIN data[key].read_only
          /\ data'[key].read_only = data[key].read_only

\* C12: a key once cached stays cached in every later state, with the same
\* dimensions and the same frozen flags; create_layer_axiom runs only for
\* uncached keys, so at most once per key.
C12_CachePermanent == []C12_NoRebuild /\ [][C12_PermanentStep]_vars

\* grid(1,A) still carries an edit made after grid(2,A) was built from it
C12_Witness ==
    /\ pc = "run"
    /\ <<2, "A">> \in DOMAIN data
    /\ Sym(data, 1, "A", 1, -1) = "#"
    /\ Sym(data, 2, "A", 1, -1) = DEFAULT_CHAR
    /\ current_layer = 2

(***************************************************************************)
(* C13.  Dimensions and ring size.                                         *)
(***************************************************************************)
\* C13: the symbol matrix and the frozen matrix of every cached grid(N,A)
\* are (2N+1) x (2N+1); the scan of get_outer_ring_cells meets 8N cells at
\* Chebyshev distance N for N > 0, each once, and the ring of layer 0 has
\* exactly one cell; get_outer_ring_cells never returns more.
C13_DimensionsAndRingCount ==
    /\ \A N \in Layers :
          LET pos == outer_ring_positions(N)
          IN  /\ layer_dimension(N) = 2 * N + 1
              /\ Len(pos) = IF N = 0 THEN 1 ELSE 8 * N
              /\ Cardinality({pos[i] : i \in 1..Len(pos)}) = Len(pos)
              /\ {pos[i] : i \in 1..Len(pos)} = {p \in Square(N) : Cheb(p[1], p[2]) = N}
    /\ \A key \in DOMAIN data :
          LET N == key[1]
              rows == 0..(2 * N)
              ring == get_outer_ring_cells(data, N, key[2])
          IN  /\ DOMAIN data[key].grid = rows
              /\ DOMAIN data[key].read_only = rows
              /\ \A gy \in rows : /\ DOMAIN data[key].grid[gy] = rows
                                  /\ DOMAIN data[key].read_only[gy] = rows
              /\ IF N = 0 THEN Len(ring) = 1 ELSE Len(ring) <= 8 * N

\* every one of the 16 ring cells of a layer-2 grid carries a symbol
C13_Witness ==
    /\ pc = "run"
    /\ <<2, "A">> \in DOMAIN data
    /\ Len(get_outer_ring_cells(data, 2, "A")) = 16
    /\ Len(get_outer_ring_cells(data, 1, "A")) = 8

(***************************************************************************)
(* C14.  The ring of layer 0.                                              *)
(***************************************************************************)
\* C14: for every cached grid(0,A), get_outer_ring_cells(0,A) is the one
\* cell (0,0,s) with s the symbol now at the origin; and after switching to
\* (0,A) and writing any symbol ch there, blank, empty and the default
\* placeholder included, it is the one cell (0,0,ch).
C14_OriginRingUnfiltered ==
    /\ \A key \in DOMAIN data :
          key[1] = 0 =>
              get_outer_ring_cells(data, 0, key[2]) =
                  << <<0, 0, Sym(data, 0, key[2], 0, 0)>> >>
    /\ pc = "run" =>
          \A A \in Axioms, ch \in KeyChars \cup Filtered :
              LET t == insert_char(go_to_layer_axiom(State, 0, A), ch)
              IN  /\ Sym(t.data, 0, A, 0, 0) = ch
                  /\ get_outer_ring_cells(t.data, 0, A) = << <<0, 0, ch>> >>

\* the user has overwritten the origin marker of grid(0,B) with a blank
C14_Witness ==
    /\ pc = "run"
    /\ current_layer = 0
    /\ current_axiom = "B"
    /\ Sym(data, 0, "B", 0, 0) = " "
    /\ get_outer_ring_cells(data, 0, "B") = << <<0, 0, " ">> >>

(***************************************************************************)
(* C15.  The ring of a layer N > 0.                                        *)
(***************************************************************************)
\* the cache d with every frozen flag of grid(N,A) inverted
FlagsInverted(d, N, A) ==
    DictSet(d, <<N, A>>,
            [grid |-> d[<<N, A>>].grid,
             read_only |-> [gy \in 0..(2 * N) |-> [gx \in 0..(2 * N) |->
                              ~d[<<N, A>>].read_only[gy][gx]]]])

\* C15: for every cached grid(N,A) with N > 0, the cells returned by
\* get_outer_ring_cells(N,A) are exactly the (x,y,s) with max(|x|,|y|) = N
\* whose symbol s in grid(N,A) is none of blank, empty, default placeholder,
\* each once, and the result is the same with all frozen flags inverted.
C15_RingExactlyFiltered ==
    \A key \in DOMAIN data :
        key[1] > 0 =>
            LET N == key[1]
                A == key[2]
                ring == get_outer_ring_cells(data, N, A)
                cells == {ring[i] : i \in 1..Len(ring)}
            IN  /\ cells = {<<p[1], p[2], Sym(data, N, A, p[1], p[2])>> :
                              p \in {q \in Square(N) :
                                        /\ Cheb(q[1], q[2]) = N
                                        /\ Sym(data, N, A, q[1], q[2]) \notin Filtered}}
                /\ Cardinality(cells) = Len(ring)
                /\ get_outer_ring_cells(FlagsInverted(data, N, A), N, A) = ring

\* a ring of layer 1 where prefill wrote seven symbols that are kept and the
\* user wrote a blank that is filtered
C15_Witness ==
    /\ pc = "run"
    /\ <<1, "A">> \in DOMAIN data
    /\ Sym(data, 1, "A", -1, -1) = " "
    /\ Len(get_outer_ring_cells(data, 1, "A")) = 7

(***************************************************************************)
(* C16 .. C19.  The projector, applied to the ring of every cached grid of *)
(* RenderSpec.                                                             *)
(***************************************************************************)
Ring(key) == get_outer_ring_cells(data, key[1], key[2])

Last(seq) == seq[Len(seq)]

\* the trace of K cells: K+1 points ending where they start when K > 1, one
\* point when K = 1
ClosedPolyline(t, K) ==
    /\ Len(t.x) = Len(t.y) /\ Len(t.y) = Len(t.z)
    /\ K > 1 => /\ Len(t.x) = K + 1
                /\ <<Last(t.x), Last(t.y), Last(t.z)>> = <<t.x[1], t.y[1], t.z[1]>>
    /\ K = 1 => Len(t.x) = 1

\* C16: for the ring of K cells of every cached grid, the circular and the
\* square render_3d both emit K+1 points with the last equal to the first
\* when K > 1, and exactly one point when K = 1.
C16_ClosedPolyline ==
    \A key \in DOMAIN data :
        LET ring == Ring(key)
        IN  /\ ClosedPolyline(render_3d_ring(ring, key[1], key[2]), Len(ring))
            /\ ClosedPolyline(render_3d_square_ring(ring, key[1], key[2]), Len(ring))

\* the ring of layer 0 is the single origin cell, that of layer 1 holds
\* three symbols
C16_Witness ==
    /\ pc = "run"
    /\ <<1, "A">> \in DOMAIN data
    /\ Len(get_outer_ring_cells(data, 0, "A")) = 1
    /\ Len(get_outer_ring_cells(data, 1, "A")) = 3

\* symbol i is the symbol of the i-th cell in angle order, and the symbol of
\* the closing duplicate is that of the first
Parallel(t, ring) ==
    LET sorted == sort_by_atan2(ring)
    IN  /\ Len(t.text) = Len(t.x)
        /\ \A i \in 1..Len(t.text) :
              t.text[i] = IF i <= Len(sorted) THEN sorted[i][3] ELSE sorted[1][3]

\* C17: for every cached grid with a ring of K >= 1 cells, the circular and
\* the square render_3d emit as many symbols as points, the closing
\* duplicate included, symbol i being the symbol of point i.
C17_SymbolsParallel ==
    \A key \in DOMAIN data :
        LET ring == Ring(key)
        IN  Len(ring) >= 1 =>
                /\ Parallel(render_3d_ring(ring, key[1], key[2]), ring)
                /\ Parallel(render_3d_square_ring(ring, key[1], key[2]), ring)

\* what the two files emit: the square render_3d is parallel; the circular
\* one is parallel for K = 1 and one symbol short of its points for K > 1
C17_SymbolsAsEmitted ==
    \A key \in DOMAIN data :
        LET ring == Ring(key)
            t == render_3d_ring(ring, key[1], key[2])
        IN  Len(ring) >= 1 =>
                /\ Parallel(render_3d_square_ring(ring, key[1], key[2]), ring)
                /\ Len(ring) = 1 => Parallel(t, ring)
                /\ Len(ring) > 1 => /\ Len(t.text) = Len(ring)
                                    /\ Len(t.x) = Len(ring) + 1

\* C18: a cached grid(N,A) with N > 0 whose ring is empty gets no further
\* than the continue under either strategy, leaving no points and no
\* symbols, and render_3d in the key loop does not raise.
C18_EmptyRingSkipped ==
    /\ pc = "run" => ~render_3d_raises(data)
    /\ \A key \in DOMAIN data :
          key[1] > 0 /\ Ring(key) = <<>> =>
              /\ render_3d_ring(Ring(key), key[1], key[2]) = NoTrace
              /\ render_3d_square_ring(Ring(key), key[1], key[2]) = NoTrace

\* the freshly built grid of layer 1, nothing typed on its ring yet
C18_Witness ==
    /\ pc = "run"
    /\ current_layer = 1
    /\ get_outer_ring_cells(data, 1, "A") = <<>>

Reverse(seq) == [i \in 1..Len(seq) |-> seq[Len(seq) + 1 - i]]

Rotate(seq) == [i \in 1..Len(seq) |-> seq[(i % Len(seq)) + 1]]

\* no two distinct cells of the ring of one layer have the same atan2 key
C19_StrictAngles ==
    \A N \in 1..MaxLayer :
        LET pos == outer_ring_positions(N)
        IN  \A i, j \in 1..Len(pos) :
                i # j => atan2_less(pos[i], pos[j]) \/ atan2_less(pos[j], pos[i])

\* C19: the sort key is a strict total order on the cells of a ring, and for
\* the ring of every cached grid the sorted cells ascend strictly and are the
\* same, as are the points and symbols of both strategies, whether the cells
\* come in scan order, reversed or rotated.
C19_OrderIndependent ==
    /\ C19_StrictAngles
    /\ \A key \in DOMAIN data :
          LET ring == Ring(key)
              sorted == sort_by_atan2(ring)
          IN  /\ \A i, j \in 1..Len(sorted) : i < j => atan2_less(sorted[i], sorted[j])
              /\ sort_by_atan2(Reverse(ring)) = sorted
              /\ sort_by_atan2(Rotate(ring)) = sorted
              /\ render_3d_ring(Reverse(ring), key[1], key[2]) =
                     render_3d_ring(ring, key[1], key[2])
              /\ render_3d_square_ring(Reverse(ring), key[1], key[2]) =
                     render_3d_square_ring(ring, key[1], key[2])

\* five cells of the ring of layer 1 are filled, the scan meeting them in an
\* order that is not the angle order
C19_Witness ==
    /\ pc = "run"
    /\ <<1, "A">> \in DOMAIN data
    /\ Len(get_outer_ring_cells(data, 1, "A")) = 5
    /\ sort_by_atan2(get_outer_ring_cells(data, 1, "A")) # get_outer_ring_cells(data, 1, "A")

(***************************************************************************)
(* C20.  Axis assignment.                                                  *)
(***************************************************************************)
\* the axis-assignment table: the triple for the plane scalars u and v, a
\* coordinate times k = sqrt(2)/2 having fold set
AxisTable(axiom, u, v) ==
    CASE axiom = "A" -> <<Coord(1, u, FALSE), Coord(1, v, FALSE), Zero>>
      [] axiom = "B" -> <<Zero, Coord(1, u, FALSE), Coord(1, v, FALSE)>>
      [] axiom = "C" -> <<Coord(1, u, FALSE), Zero, Coord(1, v, FALSE)>>
      [] axiom = "D" -> <<Coord(1, u, FALSE), Coord(1, v, TRUE), Coord(1, v, TRUE)>>
      [] axiom = "E" -> <<Coord(1, v, TRUE), Coord(1, u, FALSE), Coord(1, v, TRUE)>>
      [] axiom = "F" -> <<Coord(1, v, TRUE), Coord(1, v, TRUE), Coord(1, u, FALSE)>>
      [] axiom = "H" -> <<Coord(1, u, FALSE), Coord(1, v, TRUE), Coord(-1, v, TRUE)>>
      [] axiom = "I" -> <<Coord(-1, v, TRUE), Coord(1, u, FALSE), Coord(1, v, TRUE)>>
      [] axiom = "J" -> <<Coord(-1, v, TRUE), Coord(1, v, TRUE), Coord(1, u, FALSE)>>

\* C20: for each of the nine axioms and the scalars of every point of the
\* ring of the current grid, calculate_coordinates (u = layer*cos, v =
\* layer*sin) and calculate_square_coordinates (u = x2d, v = y2d) return the
\* triple of the axis-assignment table.
C20_AxisTable ==
    pc = "run" =>
        LET layer == current_layer
            K == Len(Ring(<<current_layer, current_axiom>>))
        IN  \A i \in 0..(K - 1) :
                \A n \in DOMAIN AXIOM_CONFIGS :
                    LET axiom == AXIOM_CONFIGS[n]
                        sq == calculate_square_2d(layer, <<i, K>>)
                    IN  /\ calculate_coordinates(axiom, layer, <<i, K>>) =
                              AxisTable(axiom, layer_cos(layer, <<i, K>>),
                                        layer_sin(layer, <<i, K>>))
                        /\ calculate_square_coordinates(axiom, layer, <<i, K>>) =
                              AxisTable(axiom, sq[1], sq[2])

\* the current grid is of layer 2 and all sixteen ring cells are projected
C20_Witness ==
    /\ pc = "run"
    /\ current_layer = 2
    /\ current_axiom = "B"
    /\ Len(get_outer_ring_cells(data, 2, "B")) = 16

(***************************************************************************)
(* C21.  The square walk.                                                  *)
(***************************************************************************)
\* the scalar s = <<"sq", n, den, 0>> has the integer value m
SqIs(s, m) == s[2] = m * s[3]

\* |s| <= m
SqWithin(s, m) == abs(s[2]) <= m * s[3]

\* the point p lies on the perimeter of the square of half-width L
OnPerimeter(p, L) ==
    /\ SqWithin(p[1], L) /\ SqWithin(p[2], L)
    /\ SqIs(p[1], L) \/ SqIs(p[1], -L) \/ SqIs(p[2], L) \/ SqIs(p[2], -L)

\* C21: at the current layer L > 0, for every ring size K the layer admits
\* and every fraction i/K, calculate_square_2d returns a point with
\* max(|u|,|v|) = L on the top edge for i/K in [0,1/4), the right edge for
\* [1/4,1/2), the bottom edge for [1/2,3/4), the left edge for [3/4,1), the
\* fraction 0 giving (-L, L); at layer 0 it returns (0,0).
C21_SquarePerimeter ==
    pc = "run" =>
        LET L == current_layer
        IN  IF L = 0
            THEN \A K \in 1..8 : \A i \in 0..(K - 1) :
                    LET p == calculate_square_2d(0, <<i, K>>)
                    IN  SqIs(p[1], 0) /\ SqIs(p[2], 0)
            ELSE \A K \in 1..(8 * L) : \A i \in 0..(K - 1) :
                    LET p == calculate_square_2d(L, <<i, K>>)
                    IN  /\ OnPerimeter(p, L)
                        /\ 4 * i < K => SqIs(p[2], L)
                        /\ K <= 4 * i /\ 4 * i < 2 * K => SqIs(p[1], L)
                        /\ 2 * K <= 4 * i /\ 4 * i < 3 * K => SqIs(p[2], -L)
                        /\ 3 * K <= 4 * i => SqIs(p[1], -L)
                        /\ i = 0 => SqIs(p[1], -L) /\ SqIs(p[2], L)

\* a full ring of sixteen cells at layer 2: the fractions i/16 are projected,
\* the quarter boundaries among them
C21_Witness ==
    /\ pc = "run"
    /\ current_layer = 2
    /\ current_axiom = "A"
    /\ Len(get_outer_ring_cells(data, 2, "A")) = 16
    /\ SqIs(calculate_square_2d(2, <<4, 16>>)[1], 2)
    /\ SqIs(calculate_square_2d(2, <<3, 16>>)[1], 1)

(***************************************************************************)
(* C22.  Full prefill.                                                     *)
(***************************************************************************)
\* the ring positions of layer L
RingOf(L) == {p \in Square(L) : Cheb(p[1], p[2]) = L}

\* the symbol lists __main__ may hand to prefill_layers
Fills == [Axioms -> FillLists]

\* the same with lists that may name the origin marker, as --fillA=O does
MarkerFills ==
    [Axioms -> UNION {[1..n -> FillChars \cup {CENTER_CHAR}] : n \in 1..MaxFill}]

\* the entry of A's list for depth L, the default placeholder if there is none
Configured(fills, A, L) ==
    IF L <= Len(fills[A]) THEN fills[A][L] ELSE DEFAULT_CHAR

RingCellsWith(d, L, A, ch) == {p \in RingOf(L) : Sym(d, L, A, p[1], p[2]) = ch}

\* C23: before anything is cached, for every choice of symbol lists and
\* every sample explored, after prefill_layers in mode partial, for every
\* axiom A and layer L up to the longest list: if A's list has a non-default
\* entry s for depth L, exactly 4L ring cells of grid(L,A) hold s and the
\* other 4L hold the default placeholder; if it has no entry, all 8L ring
\* cells hold the default placeholder.  After prefill every cached ring has
\* none or exactly half of its cells written.
C23_PartialPrefill ==
    /\ pc = "main" =>
          \A fills \in Fills, S \in Samples :
              LET d == prefill_layers(data, "partial", fills, random_outcome(S))
              IN  \A A \in Axioms, L \in 1..MaxLen(fills, Axioms) :
                      LET s == Configured(fills, A, L)
                          kept == Cardinality(RingCellsWith(d, L, A, DEFAULT_CHAR))
                      IN  /\ <<L, A>> \in DOMAIN d
                          /\ L <= Len(fills[A]) /\ s # DEFAULT_CHAR =>
                                /\ Cardinality(RingCellsWith(d, L, A, s)) = 4 * L
                                /\ kept = 4 * L
                          /\ L > Len(fills[A]) => kept = 8 * L
    /\ pc # "main" =>
          \A key \in DOMAIN data :
              key[1] > 0 => Len(Ring(key)) \in {0, 4 * key[1]}

\* partial prefill has run: four of the eight ring cells of grid(1,A) and
\* eight of the sixteen of grid(2,B) are written, grid(2,A) has no symbol
\* configured
C23_Witness ==
    /\ pc = "prefilled"
    /\ {<<2, "A">>, <<2, "B">>} \subseteq DOMAIN data
    /\ Cardinality(RingCellsWith(data, 1, "A", "B")) = 4
    /\ Cardinality(RingCellsWith(data, 1, "A", DEFAULT_CHAR)) = 4
    /\ Cardinality(RingCellsWith(data, 2, "B", "B")) = 8
    /\ Cardinality(RingCellsWith(data, 2, "B", DEFAULT_CHAR)) = 8
    /\ Cardinality(RingCellsWith(data, 2, "A", DEFAULT_CHAR)) = 16

(***************************************************************************)
(* C24.  Origin marker uniqueness.                                         *)
(***************************************************************************)
\* C24: in every reachable state the origin marker occurs in no cell of a
\* cached grid other than position (0,0) of a layer-0 grid.
C24_OriginMarkerUnique ==
    \A key \in DOMAIN data :
        \A p \in Square(key[1]) :
            Sym(data, key[1], key[2], p[1], p[2]) = CENTER_CHAR =>
                key[1] = 0 /\ p = <<0, 0>>

\* what the code keeps: no frozen cell holds the marker, since every build
\* blanks the markers it copies; on the ring the marker is a key like any
\* other
C24_MarkerNeverFrozen ==
    \A key \in DOMAIN data :
        \A p \in Square(key[1]) :
            Frozen(data, key[1], key[2], p[1], p[2]) =>
                Sym(data, key[1], key[2], p[1], p[2]) # CENTER_CHAR

(***************************************************************************)
(* C25.  Prefill layering.                                                 *)
(***************************************************************************)
\* after prefill_layers in mode full from the cache d0 with the lists fills:
\* the keys are (L,A), 0 <= L <= M, and every cell of grid(L,A), L >= 2, at
\* distance 1 <= dist < L is frozen and holds shown(entry of depth dist),
\* the center being blank
Layered(d0, fills, shown(_)) ==
    LET d == prefill_layers(d0, "full", fills, <<>>)
        M == MaxLen(fills, Axioms)
    IN  /\ DOMAIN d = (0..M) \X Axioms
        /\ \A A \in Axioms, L \in 2..M :
              /\ Sym(d, L, A, 0, 0) = " "
              /\ Frozen(d, L, A, 0, 0)
              /\ \A p \in Square(L - 1) \ {<<0, 0>>} :
                    /\ Frozen(d, L, A, p[1], p[2])
                    /\ Sym(d, L, A, p[1], p[2]) =
                           shown(Configured(fills, A, Cheb(p[1], p[2])))

Same(ch) == ch

\* C25: before anything is cached, for every choice of symbol lists with
\* longest length M, after prefill_layers in mode full the cache holds
\* exactly the keys (L,A) with 0 <= L <= M, and for 2 <= L <= M every cell
\* of grid(L,A) at Chebyshev distance d, 1 <= d < L, is frozen and holds
\* the symbol prefill wrote to the ring of grid(d,A), the center being blank.
C25_PrefillLayering ==
    pc = "main" => \A fills \in MarkerFills : Layered(data, fills, Same)

\* what the code builds: the inherited bands hold the symbols prefill wrote
\* with the origin marker blanked; for lists that do not name the marker
\* that is the symbol written
C25_LayeringAsBuilt ==
    pc = "main" =>
        /\ \A fills \in MarkerFills : Layered(data, fills, Blanked)
        /\ \A fills \in Fills : Layered(data, fills, Same)

(***************************************************************************)
(* C26.  The editable region is the ring band.                             *)
(***************************************************************************)
\* in every cached grid(N,A) a cell is frozen iff its Chebyshev distance
\* from the center is below N, and in the key loop at a layer above 0 the
\* cursor is on the ring
C26_FrozenIffInterior ==
    /\ \A key \in DOMAIN data :
          \A p \in Square(key[1]) :
              Frozen(data, key[1], key[2], p[1], p[2]) <=> Cheb(p[1], p[2]) < key[1]
    /\ pc = "run" /\ current_layer > 0 => Cheb(cursor_x, cursor_y) = current_layer

\* no step changes the symbol of an interior cell of a cached grid
C26_InteriorKeptStep ==
    \/ data' = data
    \/ \A key \in DOMAIN data :
          \/ data'[key] = data[key]
          \/ \A p \in Square(key[1] - 1) :
                Sym(data', key[1], key[2], p[1], p[2]) =
                    Sym(data, key[1], key[2], p[1], p[2])

\* C26: in every reachable state, a cell of a cached grid(N,A) is frozen iff
\* its Chebyshev distance from the center is < N; for N > 0 the cursor has
\* max(|x|,|y|) = current_layer; and no interior cell is ever written.
C26_EditableIsRing == []C26_FrozenIffInterior /\ [][C26_InteriorKeptStep]_vars

\* the cursor has walked along the ring of layer 2 to a cell that is not a
\* corner and written there, next to the frozen interior
C26_Witness ==
    /\ pc = "run"
    /\ current_layer = 2
    /\ cursor_x = 0
    /\ cursor_y = -2
    /\ Sym(data, 2, current_axiom, 0, -2) = "#"
    /\ Frozen(data, 2, current_axiom, 0, -1)

(***************************************************************************)
(* C27.  The frame of insert_char.                                         *)
(***************************************************************************)
\* C27: in the key loop, for every key ch, insert_char(ch) leaves the
\* cursor, the context, the set of cached keys, every frozen flag and every
\* grid other than grid(current_layer, current_axiom) as they were, and in
\* that grid every cell other than the one at the cursor; a cached
\* grid(current_layer + 1, current_axiom) is among the grids left alone.
C27_InsertCharFrame ==
    pc = "run" =>
        \A ch \in KeyChars :
            LET t == insert_char(State, ch)
                cur == <<current_layer, current_axiom>>
            IN  /\ t.cursor_x = cursor_x /\ t.cursor_y = cursor_y
                /\ t.current_layer = current_layer
                /\ t.current_axiom = current_axiom
                /\ DOMAIN t.data = DOMAIN data
                /\ \A key \in DOMAIN data \ {cur} : t.data[key] = data[key]
                /\ t.data[cur].read_only = data[cur].read_only
                /\ \A p \in Square(current_layer) \ {<<cursor_x, cursor_y>>} :
                      Sym(t.data, current_layer, current_axiom, p[1], p[2]) =
                          Sym(data, current_layer, current_axiom, p[1], p[2])

\* a symbol written on the ring of grid(1,A) after grid(2,A) was built: the
\* copy in grid(2,A) still shows the default placeholder
C27_Witness ==
    /\ pc = "run"
    /\ current_layer = 1
    /\ current_axiom = "A"
    /\ <<2, "A">> \in DOMAIN data
    /\ cursor_x = -1 /\ cursor_y = -1
    /\ Sym(data, 1, "A", -1, -1) = "#"
    /\ Sym(data, 2, "A", -1, -1) = DEFAULT_CHAR

(***************************************************************************)
(* C28.  The walk of jump_across ends.                                     *)
(***************************************************************************)
\* C28: in the key loop, for each of the four directions, the walk of
\* jump_across from the cursor returns after at most 2*current_layer + 1
\* passes of its loop, and every cell it hands to is_read_only lies inside
\* the current grid.
C28_WalkEnds ==
    pc = "run" =>
        \A d \in Dirs :
            LET reads == jump_walk_reads(State, cursor_x, cursor_y, d[1], d[2])
                steps == jump_walk_steps(State, cursor_x, cursor_y, d[1], d[2])
                ro == data[<<current_layer, current_axiom>>].read_only
            IN  /\ steps <= 2 * current_layer + 1
                /\ steps \in {Len(reads), Len(reads) + 1}
                /\ jump_across(State, d[1], d[2]).ret <=> steps = Len(reads)
                /\ \A i \in 1..Len(reads) :
                      /\ is_within_bounds(State, reads[i][1], reads[i][2])
                      /\ reads[i][2] + current_layer \in DOMAIN ro
                      /\ reads[i][1] + current_layer \in
                             DOMAIN ro[reads[i][2] + current_layer]

\* from the middle of the left edge of layer 2 the walk to the right passes
\* three frozen cells and commits on the fourth pass
C28_Witness ==
    /\ pc = "run"
    /\ current_layer = 2
    /\ cursor_x = -2
    /\ cursor_y = 0
    /\ jump_walk_steps(State, cursor_x, cursor_y, 1, 0) = 4
    /\ jump_walk_steps(State, cursor_x, cursor_y, -1, 0) = 1

=============================================================================
